---- MODULE Spec2Model ----
(***************************************************************************)
(* pyminiping: the ICMP echo engine of pyminiping/core.py as a state       *)
(* machine.  One behaviour is one call of ping(): the inputs are chosen in *)
(* Init, the operating system and the network are the nondeterministic     *)
(* choices of the actions, and `raised` is what the caller observes.       *)
(*                                                                         *)
(* Bytes are the numbers 0..255 and a packet is a sequence of bytes.       *)
(* Time is counted in ticks; struct.pack('d', t) is modelled as the 8-byte *)
(* little-endian encoding of the tick count (an injective 8-byte encoding, *)
(* as the IEEE-754 one is).  The statistics over the RTT samples           *)
(* (min/max/mean/median/jitter/p95) are real-valued and left out of the    *)
(* Result record; `loss` is kept as an exact fraction num/den.             *)
(***************************************************************************)
EXTENDS Integers, Sequences, FiniteSets, TLC

VARIABLES
    host,        \* input: the name given to ping()
    pid,         \* input: os.getpid()
    count,       \* input
    size,        \* input
    dscp,        \* input: << >> is None, <<d>> is the integer d
    interval,    \* input, in ticks
    privileged,  \* environment: may this process create raw sockets
    pc,          \* position inside ping()
    family,      \* "none" before resolution, then "AF_INET" / "AF_INET6"
    packet_id,
    seq,         \* the loop variable of `for seq in range(1, count + 1)`
    packet,      \* the request built for the current seq
    rtt_list,
    received,
    ttl,         \* << >> is None
    sock,        \* "none" | "open" | "closed"
    opens,       \* number of successful socket.socket() calls
    closes,      \* number of sock.close() calls
    sockcall,    \* what socket.socket() did: "notcalled" | "ok" | "PermissionError" | "OSError"
    tos,         \* value handed to setsockopt, << >> when never set
    sent_seqs,   \* the sequence numbers handed to sendto, in order
    slept,       \* the arguments of time.sleep, in order
    lost,        \* number of sequences whose listening ended in socket.timeout
    now,         \* time.time(), in ticks
    t_listen,    \* when listening for the current seq began
    t_recv,      \* when the current recvfrom call began
    raised,      \* "none" while running, else the class the caller observes, or "Result"
    cause,       \* the exception first raised inside ping() ("none" if none)
    err,         \* << >>, or <<[code, message]>> carried by the observed exception
    bad_len,     \* << >>, or <<the length of the datagram whose handling raised>>
    rx,          \* <<the datagram recvfrom returned>> until the step after its handling, else << >>
    fn_arg,      \* the arguments of a function applied on its own, << >> inside ping()
    fn_res,      \* << >>, or <<what that function returned>>
    result       \* << >>, or <<the PingResult>>

vars == <<host, pid, count, size, dscp, interval, privileged, pc, family,
          packet_id, seq, packet, rtt_list, received, ttl, sock, opens, closes,
          sockcall, tos, sent_seqs, slept, lost, now, t_listen, t_recv,
          raised, cause, err, bad_len, rx, fn_arg, fn_res, result>>

inputs == <<host, pid, count, size, dscp, interval, privileged>>

\* the variables of the functions applied on their own
pure == <<fn_arg, fn_res>>

(***************************************************************************)
(* Bounds of the model and the sets the inputs are drawn from.             *)
(***************************************************************************)
MaxCount == 2
TimeoutTicks == 2
\* the largest size create_packet is applied to on its own
MaxSize == 11

Intervals == {1}
\* the longest listening phase the model follows: one tick past the timeout
MaxListen == TimeoutTicks + 1

Hosts == {"host4", "host6", "nohost"}
Pids == {65613}
OtherIds == {78}
Sizes == {7, 8}
Dscps == {<< >>, <<46>>, <<64>>}
TTLs == {0, 120}
UnreachCodes == {0, 3, 200}
IcmpLens == {4, 10, 64}

(***************************************************************************)
(* Program constants.                                                      *)
(***************************************************************************)
ICMP_ECHO_REQUEST == 8
ICMP6_ECHO_REQUEST == 128
ICMP_DEST_UNREACH == 3
ICMP6_DEST_UNREACH == 1
IP_HEADER_LEN == 20
ICMP_HEADER_LEN == 8
MIN_SIZE == 8
RECV_BUF == 1024

None == << >>
Some(x) == <<x>>

Min(a, b) == IF a <= b THEN a ELSE b

(***************************************************************************)
(* Python and struct helpers.                                              *)
(***************************************************************************)
\* s[a:b] of Python for 0 <= a <= b: clamped to the length of s
Slice(s, a, b) ==
    IF a >= Min(b, Len(s)) THEN << >> ELSE SubSeq(s, a + 1, Min(b, Len(s)))

Zeros(n) == [i \in 1..n |-> 0]

\* struct formats: B unsigned byte, b signed byte, H unsigned short,
\* h signed short; '!' is network (big-endian) byte order
InRangeB(v) == v >= 0 /\ v <= 255
InRangeSB(v) == v >= -128 /\ v <= 127
InRangeH(v) == v >= 0 /\ v <= 65535
InRangeSH(v) == v >= -32768 /\ v <= 32767

PackU16(v) == << v \div 256, v % 256 >>
PackS16(v) == PackU16(IF v < 0 THEN v + 65536 ELSE v)
PackS8(v) == << IF v < 0 THEN v + 256 ELSE v >>

UnpackU16(b) == b[1] * 256 + b[2]
UnpackS16(b) == IF UnpackU16(b) >= 32768 THEN UnpackU16(b) - 65536 ELSE UnpackU16(b)
UnpackS8(b) == IF b >= 128 THEN b - 256 ELSE b

\* struct.pack('d', t) / struct.unpack('d', b)[0]: n bytes, lowest first
RECURSIVE PackLE(_, _)
PackLE(t, n) ==
    IF n = 0 THEN << >> ELSE <<t % 256>> \o PackLE(t \div 256, n - 1)

PackD(t) == PackLE(t, 8)

RECURSIVE UnpackDFrom(_, _)
UnpackDFrom(b, i) ==
    IF i > Len(b) THEN 0 ELSE b[i] + 256 * UnpackDFrom(b, i + 1)

UnpackD(b) == UnpackDFrom(b, 1)

\* struct.pack('!BBHHH', ...) and struct.pack('!BbHHh', ...):
\* << >> stands for struct.error (a field out of the format's range)
PackHeader4(type, code, chk, id, sq) ==
    IF InRangeB(type) /\ InRangeB(code) /\ InRangeH(chk) /\ InRangeH(id) /\ InRangeH(sq)
    THEN <<type, code>> \o PackU16(chk) \o PackU16(id) \o PackU16(sq)
    ELSE << >>

PackHeader6(type, code, chk, id, sq) ==
    IF InRangeB(type) /\ InRangeSB(code) /\ InRangeH(chk) /\ InRangeH(id) /\ InRangeSH(sq)
    THEN <<type>> \o PackS8(code) \o PackU16(chk) \o PackU16(id) \o PackS16(sq)
    ELSE << >>

PackHeader(fam, type, code, chk, id, sq) ==
    IF fam = "AF_INET" THEN PackHeader4(type, code, chk, id, sq)
    ELSE PackHeader6(type, code, chk, id, sq)

\* struct.unpack of an 8-byte ICMP header; ok = FALSE stands for
\* struct.error (the buffer is not exactly 8 bytes)
UnpackHeader(fam, h) ==
    IF Len(h) # ICMP_HEADER_LEN
    THEN [ok |-> FALSE, type |-> 0, code |-> 0, id |-> 0, sq |-> 0]
    ELSE [ok |-> TRUE,
          type |-> h[1],
          code |-> IF fam = "AF_INET" THEN h[2] ELSE UnpackS8(h[2]),
          id |-> UnpackU16(<<h[5], h[6]>>),
          sq |-> IF fam = "AF_INET" THEN UnpackU16(<<h[7], h[8]>>)
                 ELSE UnpackS16(<<h[7], h[8]>>)]

(***************************************************************************)
(* checksum(): the internet checksum over little-endian 16-bit words.      *)
(***************************************************************************)
\* sum_p is kept as its two 16-bit halves [hi, lo], so that
\* `sum_p = (sum_p + v) & 0xffffffff` is exact for every v in 0..65535
Add32(sum_p, v) ==
    [lo |-> (sum_p.lo + v) % 65536,
     hi |-> (sum_p.hi + (sum_p.lo + v) \div 65536) % 65536]

RECURSIVE SumWords(_, _, _)
SumWords(source, cnt, sum_p) ==
    IF cnt >= (Len(source) \div 2) * 2 THEN sum_p
    ELSE SumWords(source, cnt + 2,
                  Add32(sum_p, source[cnt + 2] * 256 + source[cnt + 1]))

\* mutant: the final byte swap is left out
checksum_no_swap(source) ==
    LET count_to == (Len(source) \div 2) * 2
        s0 == SumWords(source, 0, [hi |-> 0, lo |-> 0])
        s1 == IF count_to < Len(source)
              THEN Add32(s0, source[Len(source)]) ELSE s0
        s2 == s1.hi + s1.lo
        s3 == s2 + (s2 \div 65536)
    IN  65535 - (s3 % 65536)

checksum(source) ==
    LET count_to == (Len(source) \div 2) * 2
        s0 == SumWords(source, 0, [hi |-> 0, lo |-> 0])
        s1 == IF count_to < Len(source)
              THEN Add32(s0, source[Len(source)]) ELSE s0
        \* (sum_p >> 16) + (sum_p & 0xffff)
        s2 == s1.hi + s1.lo
        s3 == s2 + (s2 \div 65536)
        \* ~sum_p & 0xffff
        answer == 65535 - (s3 % 65536)
        \* answer >> 8 | (answer << 8 & 0xff00)
    IN  (answer \div 256) + ((answer % 256) * 256)

(***************************************************************************)
(* create_packet(): [exc |-> "none", bytes |-> the request] or the         *)
(* exception it raises.                                                    *)
(***************************************************************************)
EchoRequestType(fam) ==
    IF fam = "AF_INET" THEN ICMP_ECHO_REQUEST ELSE ICMP6_ECHO_REQUEST

create_packet(fam, id, sq, sz, t) ==
    LET header0 == PackHeader(fam, EchoRequestType(fam), 0, 0, id, sq)
        payload == PackD(t) \o Zeros(sz - 8)
        my_checksum == checksum(header0 \o payload)
        header == PackHeader(fam, EchoRequestType(fam), 0, my_checksum, id, sq)
    IN  IF header0 = << >> THEN [exc |-> "struct.error", bytes |-> << >>]
        ELSE IF sz < MIN_SIZE THEN [exc |-> "ValueError", bytes |-> << >>]
        ELSE [exc |-> "none", bytes |-> header \o payload]

(***************************************************************************)
(* The reason tables and the TTL heuristics.                               *)
(***************************************************************************)
icmp_code_to_text(code) ==
    CASE code = 0 -> "Network unreachable"
      [] code = 1 -> "Host unreachable"
      [] code = 2 -> "Protocol unreachable"
      [] code = 3 -> "Port unreachable"
      [] code = 4 -> "Fragmentation needed and DF set"
      [] code = 5 -> "Source route failed"
      [] code = 13 -> "Communication administratively prohibited (firewalled)"
      [] OTHER -> "Unknown reason"

icmpv6_code_to_text(code) ==
    CASE code = 0 -> "No route to destination"
      [] code = 1 -> "Communication administratively prohibited (firewalled)"
      [] code = 2 -> "Beyond scope of source address"
      [] code = 3 -> "Address unreachable"
      [] code = 4 -> "Port unreachable"
      [] code = 5 -> "Source address failed ingress/egress policy"
      [] code = 6 -> "Reject route to destination"
      [] code = 7 -> "Error in Source Routing Header"
      [] OTHER -> "Unknown reason"

\* mutant: the buckets compared with < instead of <=
guess_initial_ttl_strict(received_ttl) ==
    IF received_ttl < 64 THEN 64
    ELSE IF received_ttl < 128 THEN 128
    ELSE 255

guess_initial_ttl(received_ttl) ==
    IF received_ttl <= 64 THEN 64
    ELSE IF received_ttl <= 128 THEN 128
    ELSE 255

guess_os(received_ttl) ==
    IF received_ttl <= 64 THEN "Linux/Unix/BSD/macOS/Android"
    ELSE IF received_ttl <= 128 THEN "Windows"
    ELSE "Network device (e.g., Cisco)"

calc_hops(received_ttl) == guess_initial_ttl(received_ttl) - received_ttl + 1

(***************************************************************************)
(* The exception classes (exceptions.py) and the handlers that decide what *)
(* the caller observes.                                                    *)
(***************************************************************************)
PackageExceptions ==
    {"PyMiniPingException", "HostUnreachable", "RootRequired", "PingTimeout",
     "PacketError", "DestinationUnreachable"}

BuiltinExceptions ==
    {"ValueError", "OSError", "PermissionError", "IndexError", "struct.error",
     "socket.timeout"}

\* isinstance(an instance of class c, d)
IsSubclass(c, d) ==
    \/ c = d
    \/ d = "Exception" /\ c \in PackageExceptions \cup BuiltinExceptions
    \/ d = "PyMiniPingException" /\ c \in PackageExceptions
    \/ d = "OSError" /\ c \in {"socket.timeout", "PermissionError"}

\* mutant: the resolution failure re-raised as the generic base class
resolve_except_generic(exc) == "PyMiniPingException"

\* resolve_host: `except Exception: raise HostUnreachable`
resolve_except(exc) == "HostUnreachable"

\* mutant: every socket-creation failure reported as a permission problem
socket_except_root(exc) == "RootRequired"

\* socket creation: `except PermissionError: raise RootRequired`,
\* `except Exception: raise PyMiniPingException`
socket_except(exc) ==
    IF exc = "PermissionError" THEN "RootRequired" ELSE "PyMiniPingException"

\* the probe loop: `except Exception as e: raise PyMiniPingException(f"Ping failed: {e}")`
loop_except(exc) ==
    IF IsSubclass(exc, "Exception") THEN "PyMiniPingException" ELSE exc

\* mutant: the inner try does not catch the timeout
inner_except_uncaught(exc) == "propagate"

\* the inner try of the receive loop: `except socket.timeout: break`
inner_except(exc) ==
    IF IsSubclass(exc, "socket.timeout") THEN "break" ELSE "propagate"

\* cli.main: the first except clause that matches
main_except(exc) ==
    IF IsSubclass(exc, "HostUnreachable") THEN "Host unreachable or cannot resolve host."
    ELSE IF IsSubclass(exc, "RootRequired") THEN "Root privileges or CAP_NET_RAW are required"
    ELSE IF IsSubclass(exc, "PingTimeout") THEN "Request timed out: no replies received."
    ELSE IF IsSubclass(exc, "DestinationUnreachable") THEN "Destination unreachable"
    ELSE "Error"

(***************************************************************************)
(* The body of `while True` for one received datagram (lines 249-277):     *)
(* kind is "ours", "foreign" or "raise" (with the exception raised inside  *)
(* the inner try, which catches socket.timeout only).                      *)
(***************************************************************************)
Outcome(kind, exc, code, message, recv_ttl, rtt) ==
    [kind |-> kind, exc |-> exc, code |-> code, message |-> message,
     recv_ttl |-> recv_ttl, rtt |-> rtt]

DestUnreachType(fam) ==
    IF fam = "AF_INET" THEN ICMP_DEST_UNREACH ELSE ICMP6_DEST_UNREACH

code_to_text(fam, code) ==
    IF fam = "AF_INET" THEN icmp_code_to_text(code) ELSE icmpv6_code_to_text(code)

\* mutant: the sequence number is not compared
is_ours_id_only(h, id, sq) == h.id = id

\* mutant: the identifier is not compared
is_ours_seq_only(h, id, sq) == h.sq = sq

is_ours(h, id, sq) == h.id = id /\ h.sq = sq

handle_reply(fam, rec_packet, id, sq, time_received) ==
    LET off == IF fam = "AF_INET" THEN IP_HEADER_LEN ELSE 0
        ip_header == Slice(rec_packet, 0, IP_HEADER_LEN)
        icmp_header == Slice(rec_packet, off, off + ICMP_HEADER_LEN)
        h == UnpackHeader(fam, icmp_header)
        stamp == Slice(rec_packet, off + ICMP_HEADER_LEN, off + ICMP_HEADER_LEN + 8)
    IN  IF fam = "AF_INET" /\ Len(ip_header) <= 8
        THEN Outcome("raise", "IndexError", 0, "", None, 0)
        ELSE IF ~h.ok
        THEN Outcome("raise", "struct.error", 0, "", None, 0)
        ELSE IF h.type = DestUnreachType(fam)
        THEN Outcome("raise", "DestinationUnreachable", h.code,
                     code_to_text(fam, h.code), None, 0)
        ELSE IF ~is_ours(h, id, sq)
        THEN Outcome("foreign", "none", 0, "", None, 0)
        ELSE IF Len(stamp) # 8
        THEN Outcome("raise", "struct.error", 0, "", None, 0)
        ELSE Outcome("ours", "none", 0, "",
                     IF fam = "AF_INET" THEN Some(ip_header[9]) ELSE None,
                     time_received - UnpackD(stamp))

(***************************************************************************)
(* The environment: name resolution and the datagrams the raw socket can   *)
(* deliver while ping() listens.                                           *)
(***************************************************************************)
\* socket.getaddrinfo(host, ...)[0][0], or "fail" when it raises
getaddrinfo(h) ==
    CASE h = "host4" -> "AF_INET"
      [] h = "host6" -> "AF_INET6"
      [] OTHER -> "fail"

IpHeader(t) == [i \in 1..IP_HEADER_LEN |-> IF i = 1 THEN 69 ELSE IF i = 9 THEN t ELSE 0]

\* an ICMP message of icmplen bytes at most, behind an IPv4 header on an
\* AF_INET raw socket and bare on an AF_INET6 one
Datagram(fam, t, type, code, id, sq, payload, icmplen) ==
    (IF fam = "AF_INET" THEN IpHeader(t) ELSE << >>)
    \o Slice(<<type, code, 0, 0>> \o PackU16(id) \o PackU16(sq) \o payload, 0, icmplen)

\* Echo Reply is type 0 (RFC 792) and type 129 (RFC 4443)
EchoTypes(fam) ==
    IF fam = "AF_INET" THEN {0, ICMP_ECHO_REQUEST}
    ELSE {129, ICMP6_ECHO_REQUEST}

EchoPayload == Slice(packet, ICMP_HEADER_LEN, Len(packet))

\* echo replies and echo requests, of this run or of another, whole or cut
\* short, carrying the payload of the outstanding request
EchoDatagrams ==
    { Datagram(family, t, type, 0, id, sq, EchoPayload, n) :
        t \in TTLs, type \in EchoTypes(family),
        id \in {packet_id} \cup OtherIds, sq \in 1..MaxCount, n \in IcmpLens }

\* destination-unreachable messages, whole or cut short
UnreachDatagrams ==
    { Datagram(family, 64, IF family = "AF_INET" THEN ICMP_DEST_UNREACH
                           ELSE ICMP6_DEST_UNREACH,
               code, 0, 0, EchoPayload, n) :
        code \in UnreachCodes, n \in IcmpLens }

Datagrams == EchoDatagrams \cup UnreachDatagrams

(***************************************************************************)
(* ping()                                                                  *)
(***************************************************************************)
Init ==
    /\ host \in Hosts
    /\ pid \in Pids
    /\ count \in 0..MaxCount
    /\ size \in Sizes
    /\ dscp \in Dscps
    /\ interval \in Intervals
    /\ privileged \in BOOLEAN
    /\ pc = "resolve"
    /\ family = "none"
    /\ packet_id = 0
    /\ seq = 0
    /\ packet = << >>
    /\ rtt_list = << >>
    /\ received = 0
    /\ ttl = None
    /\ sock = "none"
    /\ opens = 0
    /\ closes = 0
    /\ sockcall = "notcalled"
    /\ tos = None
    /\ sent_seqs = << >>
    /\ slept = << >>
    /\ lost = 0
    /\ now = 0
    /\ t_listen = 0
    /\ t_recv = 0
    /\ raised = "none"
    /\ cause = "none"
    /\ err = None
    /\ bad_len = None
    /\ rx = None
    /\ fn_arg = None
    /\ fn_res = None
    /\ result = None

\* an exception leaves ping(): the caller observes class cls; first is the
\* exception first raised, e the code and message cls carries (if any)
Raise(cls, first, e) ==
    /\ raised' = cls
    /\ cause' = first
    /\ err' = e
    /\ pc' = "done"

\* lines 213-217
ResolveHost ==
    /\ pc = "resolve"
    /\ IF getaddrinfo(host) = "fail"
       THEN /\ Raise(resolve_except("gaierror"), "gaierror", None)
            /\ UNCHANGED <<family, packet_id>>
       ELSE /\ family' = getaddrinfo(host)
            /\ packet_id' = pid % 65536
            /\ pc' = "socket"
            /\ UNCHANGED <<raised, cause, err>>
    /\ rx' = None
    /\ UNCHANGED <<inputs, pure, seq, packet, rtt_list, received, ttl, sock, opens,
                   closes, sockcall, tos, sent_seqs, slept, lost, now,
                   t_listen, t_recv, bad_len, result>>

\* what socket.socket(family, SOCK_RAW, proto) can do for this process
SocketResults ==
    IF privileged THEN {"ok", "OSError"} ELSE {"PermissionError", "OSError"}

\* lines 219-229: getprotobyname, then socket.socket under its try
OpenSocket ==
    /\ pc = "socket"
    /\ \E proto_ok \in BOOLEAN, r \in SocketResults :
         IF ~proto_ok
         THEN /\ Raise("OSError", "OSError", None)
              /\ UNCHANGED <<sock, opens, sockcall>>
         ELSE IF r = "ok"
         THEN /\ sock' = "open"
              /\ opens' = opens + 1
              /\ sockcall' = r
              /\ pc' = "dscp"
              /\ UNCHANGED <<raised, cause, err>>
         ELSE /\ Raise(socket_except(r), r, None)
              /\ sockcall' = r
              /\ UNCHANGED <<sock, opens>>
    /\ rx' = None
    /\ UNCHANGED <<inputs, pure, family, packet_id, seq, packet, rtt_list, received,
                   ttl, closes, tos, sent_seqs, slept, lost, now, t_listen,
                   t_recv, bad_len, result>>

\* lines 231-239
SetDscp ==
    /\ pc = "dscp"
    /\ IF dscp = None
       THEN /\ pc' = "loop"
            /\ UNCHANGED <<tos, raised, cause, err>>
       ELSE \E r \in {"ok", "OSError"} :
              IF r = "ok"
              THEN /\ tos' = Some(dscp[1] * 4)
                   /\ pc' = "loop"
                   /\ UNCHANGED <<raised, cause, err>>
              ELSE /\ Raise("OSError", "OSError", None)
                   /\ UNCHANGED tos
    /\ rx' = None
    /\ UNCHANGED <<inputs, pure, family, packet_id, seq, packet, rtt_list, received,
                   ttl, sock, opens, closes, sockcall, sent_seqs, slept, lost,
                   now, t_listen, t_recv, bad_len, result>>

\* lines 241-242: the next seq of the for loop and its create_packet,
\* which is outside the try
CreatePacket ==
    /\ pc = "loop"
    /\ seq < count
    /\ seq' = seq + 1
    /\ LET p == create_packet(family, packet_id, seq + 1, size, now)
       IN  IF p.exc # "none"
           THEN /\ Raise(p.exc, p.exc, None)
                /\ UNCHANGED packet
           ELSE /\ packet' = p.bytes
                /\ pc' = "send"
                /\ UNCHANGED <<raised, cause, err>>
    /\ rx' = None
    /\ UNCHANGED <<inputs, pure, family, packet_id, rtt_list, received, ttl, sock,
                   opens, closes, sockcall, tos, sent_seqs, slept, lost, now,
                   t_listen, t_recv, bad_len, result>>

\* lines 244-245: sendto and settimeout, inside the outer try
SendProbe ==
    /\ pc = "send"
    /\ \E r \in {"ok", "OSError"} :
         IF r = "ok"
         THEN /\ sent_seqs' = Append(sent_seqs, seq)
              /\ t_listen' = now
              /\ t_recv' = now
              /\ pc' = "listen"
              /\ UNCHANGED <<raised, cause, err>>
         ELSE /\ Raise(loop_except(r), r, None)
              /\ UNCHANGED <<sent_seqs, t_listen, t_recv>>
    /\ rx' = None
    /\ UNCHANGED <<inputs, pure, family, packet_id, seq, packet, rtt_list, received,
                   ttl, sock, opens, closes, sockcall, tos, slept, lost, now,
                   bad_len, result>>

\* mutant: every matched reply overwrites the TTL
capture_ttl_last(t, recv_ttl) == recv_ttl

\* lines 275-276
capture_ttl(t, recv_ttl) == IF t = None THEN recv_ttl ELSE t

\* line 248: recvfrom returns a datagram before its timeout
Recv ==
    /\ pc = "listen"
    /\ now - t_recv < TimeoutTicks
    /\ \E d \in Datagrams : rx' = Some(Slice(d, 0, RECV_BUF))
    /\ pc' = "handle"
    /\ UNCHANGED <<inputs, pure, family, packet_id, seq, packet, rtt_list,
                   received, ttl, sock, opens, closes, sockcall, tos,
                   sent_seqs, slept, lost, now, t_listen, t_recv, raised,
                   cause, err, bad_len, result>>

\* lines 249-277: the body of the while loop handles the datagram, and the
\* outer `except Exception` wraps whatever it raises.  A foreign datagram
\* goes round the loop: recvfrom is called again, and the socket timeout
\* applies to that call anew.
Handle ==
    /\ pc = "handle"
    /\ LET o == handle_reply(family, rx[1], packet_id, seq, now)
       IN  CASE o.kind = "raise" ->
                  /\ Raise(loop_except(o.exc), o.exc,
                           IF loop_except(o.exc) = "DestinationUnreachable"
                           THEN Some([code |-> o.code, message |-> o.message])
                           ELSE None)
                  /\ bad_len' = Some(Len(rx[1]))
                  /\ UNCHANGED <<rtt_list, received, ttl, t_recv, rx>>
             [] o.kind = "ours" ->
                  /\ rtt_list' = Append(rtt_list, o.rtt)
                  /\ received' = received + 1
                  /\ ttl' = capture_ttl(ttl, o.recv_ttl)
                  /\ pc' = "sleep"
                  /\ UNCHANGED <<raised, cause, err, bad_len, t_recv, rx>>
             [] OTHER ->
                  /\ t_recv' = now
                  /\ pc' = "listen"
                  /\ rx' = None
                  /\ UNCHANGED <<raised, cause, err, bad_len, rtt_list,
                                 received, ttl>>
    /\ UNCHANGED <<inputs, pure, family, packet_id, seq, packet, sock, opens,
                   closes, sockcall, tos, sent_seqs, slept, lost, now,
                   t_listen, result>>

\* line 248 raising an OSError other than socket.timeout
RecvFails ==
    /\ pc = "listen"
    /\ now - t_recv < TimeoutTicks
    /\ Raise(loop_except("OSError"), "OSError", None)
    /\ rx' = None
    /\ UNCHANGED <<inputs, pure, family, packet_id, seq, packet, rtt_list, received,
                   ttl, sock, opens, closes, sockcall, tos, sent_seqs, slept,
                   lost, now, t_listen, t_recv, bad_len, result>>

\* time passes while recvfrom blocks
Tick ==
    /\ pc = "listen"
    /\ now - t_recv < TimeoutTicks
    /\ now - t_listen < MaxListen
    /\ now' = now + 1
    /\ rx' = None
    /\ UNCHANGED <<inputs, pure, pc, family, packet_id, seq, packet, rtt_list,
                   received, ttl, sock, opens, closes, sockcall, tos,
                   sent_seqs, slept, lost, t_listen, t_recv, raised, cause,
                   err, bad_len, result>>

\* lines 278-279: recvfrom raises socket.timeout and the inner try decides
Timeout ==
    /\ pc = "listen"
    /\ now - t_recv >= TimeoutTicks
    /\ IF inner_except("socket.timeout") = "break"
       THEN /\ lost' = lost + 1
            /\ pc' = "sleep"
            /\ UNCHANGED <<raised, cause, err>>
       ELSE /\ Raise(loop_except("socket.timeout"), "socket.timeout", None)
            /\ UNCHANGED lost
    /\ rx' = None
    /\ UNCHANGED <<inputs, pure, family, packet_id, seq, packet, rtt_list, received,
                   ttl, sock, opens, closes, sockcall, tos, sent_seqs, slept,
                   now, t_listen, t_recv, bad_len, result>>

\* mutant: the interval is slept after the last sequence too
sleep_arg_always(sq, cnt, ivl) == ivl

sleep_arg(sq, cnt, ivl) == IF sq < cnt THEN ivl ELSE 0

\* line 282: time.sleep raises ValueError for a negative argument
Sleep ==
    /\ pc = "sleep"
    /\ LET d == sleep_arg(seq, count, interval)
       IN  IF d < 0
           THEN /\ Raise("ValueError", "ValueError", None)
                /\ UNCHANGED <<slept, now>>
           ELSE /\ slept' = Append(slept, d)
                /\ now' = now + d
                /\ pc' = "loop"
                /\ UNCHANGED <<raised, cause, err>>
    /\ rx' = None
    /\ UNCHANGED <<inputs, pure, family, packet_id, seq, packet, rtt_list, received,
                   ttl, sock, opens, closes, sockcall, tos, sent_seqs, lost,
                   t_listen, t_recv, bad_len, result>>

\* line 283, reached when the for loop is exhausted
CloseSocket ==
    /\ pc = "loop"
    /\ seq >= count
    /\ sock' = "closed"
    /\ closes' = closes + 1
    /\ pc' = "finish"
    /\ rx' = None
    /\ UNCHANGED <<inputs, pure, family, packet_id, seq, packet, rtt_list, received,
                   ttl, opens, sockcall, tos, sent_seqs, slept, lost, now,
                   t_listen, t_recv, raised, cause, err, bad_len, result>>

\* mutant: the loss computed with floor division
PingResult_floor_loss(cnt, rcv, rtts, t, fam) ==
    [sent |-> cnt,
     received |-> rcv,
     loss |-> IF cnt # 0 THEN [num |-> ((cnt - rcv) \div cnt) * 100, den |-> 1]
              ELSE [num |-> 100, den |-> 1],
     rtt_list |-> rtts,
     ttl |-> t,
     hops |-> IF t # None /\ fam = "AF_INET" THEN Some(calc_hops(t[1])) ELSE None,
     os_guess |-> IF t # None /\ fam = "AF_INET" THEN Some(guess_os(t[1])) ELSE None]

\* mutant: hops tested with `if ttl` instead of `if ttl is not None`
PingResult_truthy_ttl(cnt, rcv, rtts, t, fam) ==
    [sent |-> cnt,
     received |-> rcv,
     loss |-> IF cnt # 0 THEN [num |-> (cnt - rcv) * 100, den |-> cnt]
              ELSE [num |-> 100, den |-> 1],
     rtt_list |-> rtts,
     ttl |-> t,
     hops |-> IF t # None /\ t # Some(0) /\ fam = "AF_INET"
              THEN Some(calc_hops(t[1])) ELSE None,
     os_guess |-> IF t # None /\ fam = "AF_INET" THEN Some(guess_os(t[1])) ELSE None]

\* mutant: the Result reports the replies as the packets sent
PingResult_sent_received(cnt, rcv, rtts, t, fam) ==
    [sent |-> rcv,
     received |-> rcv,
     loss |-> IF cnt # 0 THEN [num |-> (cnt - rcv) * 100, den |-> cnt]
              ELSE [num |-> 100, den |-> 1],
     rtt_list |-> rtts,
     ttl |-> t,
     hops |-> IF t # None /\ fam = "AF_INET" THEN Some(calc_hops(t[1])) ELSE None,
     os_guess |-> IF t # None /\ fam = "AF_INET" THEN Some(guess_os(t[1])) ELSE None]

\* lines 288-305; loss is the fraction num/den
PingResult(cnt, rcv, rtts, t, fam) ==
    [sent |-> cnt,
     received |-> rcv,
     loss |-> IF cnt # 0 THEN [num |-> (cnt - rcv) * 100, den |-> cnt]
              ELSE [num |-> 100, den |-> 1],
     rtt_list |-> rtts,
     ttl |-> t,
     hops |-> IF t # None /\ fam = "AF_INET" THEN Some(calc_hops(t[1])) ELSE None,
     os_guess |-> IF t # None /\ fam = "AF_INET" THEN Some(guess_os(t[1])) ELSE None]

\* mutant: the zero-reply check compares with the wrong bound
no_reply_negative(rcv) == rcv < 0

\* line 285
no_reply(rcv) == rcv = 0

\* lines 285-305
Finish ==
    /\ pc = "finish"
    /\ IF no_reply(received)
       THEN /\ Raise("PingTimeout", "PingTimeout", None)
            /\ UNCHANGED result
       ELSE /\ result' = Some(PingResult(count, received, rtt_list, ttl, family))
            /\ raised' = "Result"
            /\ pc' = "done"
            /\ UNCHANGED <<cause, err>>
    /\ rx' = None
    /\ UNCHANGED <<inputs, pure, family, packet_id, seq, packet, rtt_list, received,
                   ttl, sock, opens, closes, sockcall, tos, sent_seqs, slept,
                   lost, now, t_listen, t_recv, bad_len>>

Next ==
    \/ ResolveHost
    \/ OpenSocket
    \/ SetDscp
    \/ CreatePacket
    \/ SendProbe
    \/ Recv
    \/ Handle
    \/ RecvFails
    \/ Tick
    \/ Timeout
    \/ Sleep
    \/ CloseSocket
    \/ Finish

Spec == Init /\ [][Next]_vars

(***************************************************************************)
(* Properties                                                              *)
(***************************************************************************)
HeaderSize(fam) ==
    IF fam = "AF_INET" THEN IP_HEADER_LEN + ICMP_HEADER_LEN ELSE ICMP_HEADER_LEN

\* C1: a received packet of the family's Destination-Unreachable type makes
\* the call fail with DestinationUnreachable, carrying the packet's code and
\* its reason text; the caller (cli.main) takes its DestinationUnreachable
\* branch, not the generic one.
C1_DestinationUnreachableObserved ==
    cause = "DestinationUnreachable" =>
        /\ raised = "DestinationUnreachable"
        /\ err # None
        /\ main_except(raised) = "Destination unreachable"

\* C2: once the raw socket has been opened, it has been closed exactly once
\* when the call ends, whatever the exit path.
C2_SocketClosedOnce ==
    pc = "done" /\ opens = 1 => closes = 1 /\ sock = "closed"

\* C3: a run whose loop ends with received = 0 fails with PingTimeout and
\* returns no Result; every returned Result has received >= 1 and a loss
\* strictly below 100.
C3_ZeroRepliesIsPingTimeout ==
    /\ pc = "done" /\ closes = 1 /\ received = 0 =>
           raised = "PingTimeout" /\ result = None
    /\ raised = "Result" =>
           /\ result # None
           /\ result[1].received >= 1
           /\ result[1].loss.num < 100 * result[1].loss.den

C3_Witness ==
    raised = "PingTimeout" /\ count >= 2 /\ lost = count /\ Len(sent_seqs) = count

\* C4: while ping() listens for one sequence, no more than `timeout` has
\* passed since listening for it began, however many foreign replies came.
C4_SingleDeadline ==
    pc = "listen" => now - t_listen <= TimeoutTicks

\* C5: a timeout on one sequence raises nothing: the loop sleeps, then
\* builds and hands to sendto the next sequence number; PingTimeout comes
\* from the end-of-run check alone.
C5_TimeoutNotFatal ==
    [][ /\ pc = "listen" /\ now - t_recv >= TimeoutTicks =>
              raised' = "none" /\ pc' = "sleep" /\ seq' = seq /\ lost' = lost + 1
        /\ pc = "sleep" /\ seq < count =>
              raised' = "none" /\ pc' = "loop" /\ seq' = seq
        /\ pc = "loop" /\ seq >= 1 /\ seq < count =>
              raised' = "none" /\ pc' = "send" /\ seq' = seq + 1
        /\ pc = "send" /\ raised' = "none" =>
              sent_seqs' = Append(sent_seqs, seq) /\ pc' = "listen"
        /\ raised' = "PingTimeout" /\ raised = "none" =>
              pc = "finish" /\ received = 0 ]_vars

C5_Witness ==
    lost = 1 /\ received = 0 /\ sent_seqs = <<1, 2>> /\ pc = "listen"

\* C6: in every returned Result sent = count, 0 <= received <= sent, and
\* received plus the number of per-sequence timeouts equals sent.
C6_ResultCounts ==
    raised = "Result" =>
        /\ result[1].sent = count
        /\ 0 <= result[1].received
        /\ result[1].received <= result[1].sent
        /\ result[1].received + lost = result[1].sent

C6_Witness ==
    raised = "Result" /\ lost >= 1 /\ result[1].received >= 1

\* C7: a call with size < 8 that fails with the invalid-argument error has
\* opened no socket, set no socket option and sent no packet.
C7_InvalidSizeBeforeSocket ==
    size < MIN_SIZE /\ raised = "ValueError" =>
        opens = 0 /\ sockcall = "notcalled" /\ tos = None /\ sent_seqs = << >>

\* C8: when resolution fails, the call fails with HostUnreachable whatever
\* the privilege: socket.socket is never called, so RootRequired never
\* comes up.
C8_UnresolvableIsHostUnreachable ==
    getaddrinfo(host) = "fail" =>
        /\ pc = "done" => raised = "HostUnreachable"
        /\ raised \in {"none", "HostUnreachable"}
        /\ sockcall = "notcalled"
        /\ opens = 0

C8_Witness ==
    raised = "HostUnreachable" /\ ~privileged

\* C9: a socket.socket() rejected for lack of privilege gives RootRequired
\* and nothing is sent; any other failure of socket.socket() gives the
\* generic PyMiniPingException; RootRequired has no other origin.
C9_RootRequiredOnlyForPermission ==
    /\ sockcall = "PermissionError" => raised = "RootRequired" /\ sent_seqs = << >>
    /\ sockcall = "OSError" => raised = "PyMiniPingException" /\ sent_seqs = << >>
    /\ raised = "RootRequired" => sockcall = "PermissionError"

C9_Witness ==
    sockcall = "PermissionError" /\ raised = "RootRequired" /\ ~privileged

\* C10: a received datagram shorter than the fixed header size (IPv4 28
\* bytes, IPv6 8 bytes) makes the call fail with PacketError.
C10_ShortDatagramIsPacketError ==
    bad_len # None /\ bad_len[1] < HeaderSize(family) => raised = "PacketError"


(***************************************************************************)
(* The fields of the datagram recvfrom returned, read at their offsets.    *)
(***************************************************************************)
RxOff == IF family = "AF_INET" THEN IP_HEADER_LEN ELSE 0
RxParsable(d) == Len(d) >= HeaderSize(family)
RxType(d) == d[RxOff + 1]
RxId(d) == d[RxOff + 5] * 256 + d[RxOff + 6]
RxSeq(d) == d[RxOff + 7] * 256 + d[RxOff + 8]
RxTtl(d) == d[9]
EchoReplyType(fam) == IF fam = "AF_INET" THEN 0 ELSE 129

\* C11: a dscp outside 0..63 is never handed to the socket: the call does
\* not get past the option setting.
C11_DscpOutOfRangeRejected ==
    dscp # None /\ (dscp[1] < 0 \/ dscp[1] > 63) =>
        tos = None /\ pc \notin {"loop", "send", "listen", "handle", "sleep", "finish"}

\* C12: in every returned Result the loss is 0 exactly when received = sent;
\* a count = 1 run that returns has received = 1 and loss 0.
C12_LossZeroIffAllReceived ==
    raised = "Result" =>
        /\ result[1].loss.num = 0 <=> result[1].received = result[1].sent
        /\ count = 1 => result[1].received = 1 /\ result[1].loss.num = 0

C12_Witness ==
    raised = "Result" /\ count = 1 /\ result[1].received = 1 /\ result[1].loss.num = 0

\* C13: handling a foreign datagram (not destination-unreachable, id or
\* sequence different from the outstanding probe) leaves received, the RTT
\* samples, the TTL and the sequence number as they were and goes back to
\* listening for the same sequence.
C13_ForeignChangesNothing ==
    [][ ( pc = "handle"
          /\ RxParsable(rx[1])
          /\ RxType(rx[1]) # DestUnreachType(family)
          /\ (RxId(rx[1]) # packet_id \/ RxSeq(rx[1]) # seq) )
        => ( pc' = "listen"
             /\ raised' = "none"
             /\ UNCHANGED <<received, rtt_list, ttl, seq, lost, sent_seqs>> ) ]_vars

C13_Witness ==
    pc = "listen" /\ t_recv > t_listen /\ seq = 1 /\ received = 0

\* C14: the sequence numbers handed to sendto are 1, 2, ... in order, each
\* once and at most count of them; while one is outstanding all earlier
\* ones ended in a match or a timeout; every sequence gives at most one
\* sample, and a sample is only taken from a reply carrying the outstanding
\* sequence number.
C14_Sequential ==
    /\ [](/\ sent_seqs = [i \in 1..Len(sent_seqs) |-> i]
          /\ Len(sent_seqs) <= count
          /\ Len(rtt_list) = received
          /\ pc = "send" => Len(sent_seqs) = seq - 1 /\ received + lost = seq - 1
          /\ pc \in {"listen", "handle"} =>
                 Len(sent_seqs) = seq /\ received + lost = seq - 1
          /\ pc = "sleep" => Len(sent_seqs) = seq /\ received + lost = seq
          /\ raised = "Result" => Len(sent_seqs) = count)
    /\ [][ received' # received =>
              /\ pc = "handle"
              /\ received' = received + 1
              /\ RxSeq(rx[1]) = seq
              /\ seq = Len(sent_seqs) ]_vars

C14_Witness ==
    /\ pc = "handle" /\ seq = 2 /\ received = 1
    /\ RxParsable(rx[1]) /\ RxId(rx[1]) = packet_id /\ RxSeq(rx[1]) = 1
    /\ RxType(rx[1]) = EchoReplyType(family)

\* C15: the TTL is taken from the first matched reply (IPv4; none for
\* IPv6), no later matched reply changes it, and the Result carries it.
C15_FirstTtlKept ==
    [][ /\ pc = "handle" /\ received = 0 /\ received' = 1 =>
              ttl' = IF family = "AF_INET" THEN Some(RxTtl(rx[1])) ELSE None
        /\ received >= 1 => ttl' = ttl
        /\ result' # None => result'[1].ttl = ttl ]_vars

C15_Witness ==
    /\ pc = "sleep" /\ received = 2 /\ rx # None /\ family = "AF_INET"
    /\ RxTtl(rx[1]) # ttl[1]


\* C17: the argument of the sleep that follows sequence k is the interval
\* for k < count and 0 for k = count; sequence k+1 is handed to sendto only
\* after k sleeps, and a run that returns or ends in PingTimeout has slept
\* count times, the last time for 0.
C17_IntervalBetweenNotAfter ==
    /\ slept = [i \in 1..Len(slept) |-> IF i < count THEN interval ELSE 0]
    /\ pc \in {"send", "listen", "handle"} => Len(slept) = seq - 1
    /\ raised \in {"Result", "PingTimeout"} =>
           Len(slept) = count /\ (count >= 1 => slept[count] = 0)

C17_Witness ==
    raised = "Result" /\ count = 2 /\ interval > 0 /\ slept = <<interval, 0>>

\* C19: a sample is recorded only for a datagram whose ICMP type is the
\* family's Echo Reply and whose id and sequence are the outstanding
\* probe's.
C19_OnlyEchoReplyCounted ==
    pc = "sleep" /\ rx # None =>
        /\ RxType(rx[1]) = EchoReplyType(family)
        /\ RxId(rx[1]) = packet_id
        /\ RxSeq(rx[1]) = seq

\* C20: in every returned Result ttl, hops and os_guess are all present or
\* all absent: all present with hops >= 1 for an IPv4 target, all absent
\* for an IPv6 target.
C20_TtlHopsOsTogether ==
    raised = "Result" =>
        /\ result[1].ttl = None <=> result[1].hops = None
        /\ result[1].hops = None <=> result[1].os_guess = None
        /\ family = "AF_INET" => result[1].hops # None /\ result[1].hops[1] >= 1
        /\ family = "AF_INET6" => result[1].ttl = None

C20_Witness ==
    raised = "Result" /\ family = "AF_INET" /\ result[1].ttl = Some(0)

(***************************************************************************)
(* The TTL heuristics and create_packet applied on their own: ping() is    *)
(* not running, the arguments are drawn in the initial state and one step  *)
(* applies the function.                                                   *)
(***************************************************************************)
pingvars == <<inputs, pc, family, packet_id, seq, packet, rtt_list, received,
              ttl, sock, opens, closes, sockcall, tos, sent_seqs, slept, lost,
              now, t_listen, t_recv, raised, cause, err, bad_len, rx, result>>

NotRunning ==
    /\ host = "nohost"
    /\ pid = 0
    /\ count = 0
    /\ size = 0
    /\ dscp = None
    /\ interval = 0
    /\ privileged = FALSE
    /\ pc = "idle"
    /\ family = "none"
    /\ packet_id = 0
    /\ seq = 0
    /\ packet = << >>
    /\ rtt_list = << >>
    /\ received = 0
    /\ ttl = None
    /\ sock = "none"
    /\ opens = 0
    /\ closes = 0
    /\ sockcall = "notcalled"
    /\ tos = None
    /\ sent_seqs = << >>
    /\ slept = << >>
    /\ lost = 0
    /\ now = 0
    /\ t_listen = 0
    /\ t_recv = 0
    /\ raised = "none"
    /\ cause = "none"
    /\ err = None
    /\ bad_len = None
    /\ rx = None
    /\ result = None

InitTtl ==
    /\ NotRunning
    /\ fn_arg \in {Some(t) : t \in 0..255}
    /\ fn_res = None

ApplyTtl ==
    /\ fn_arg # None
    /\ fn_res = None
    /\ fn_res' = Some([initial |-> guess_initial_ttl(fn_arg[1]),
                       hops |-> calc_hops(fn_arg[1]),
                       os_guess |-> guess_os(fn_arg[1])])
    /\ UNCHANGED <<pingvars, fn_arg>>

SpecTtl == InitTtl /\ [][ApplyTtl]_vars

\* C16: for every observed TTL t in 0..255 the initial-TTL guess is the
\* smallest of 64, 128, 255 that is >= t, hops = guess - t + 1, and the
\* label is the Unix one for t <= 64, Windows for 64 < t <= 128, the
\* network-device one above.
C16_TtlBuckets ==
    fn_res # None =>
        LET t == fn_arg[1]
            r == fn_res[1]
        IN  /\ r.initial \in {64, 128, 255}
            /\ r.initial >= t
            /\ \A g \in {64, 128, 255} : g >= t => r.initial <= g
            /\ r.hops = r.initial - t + 1
            /\ t <= 64 => r.os_guess = "Linux/Unix/BSD/macOS/Android"
            /\ t > 64 /\ t <= 128 => r.os_guess = "Windows"
            /\ t > 128 => r.os_guess = "Network device (e.g., Cisco)"

C16_Witness ==
    fn_res # None /\ fn_arg[1] = 128 /\ fn_res[1].initial = 128 /\ fn_res[1].hops = 1

PacketIds == {0, 77, 65535}
PacketSeqs == {1, 255, 256, 32767, 32768, 65535}
PacketTimes == {0, 258, 2000000000}

InitPacket ==
    /\ NotRunning
    /\ fn_arg \in {Some([fam |-> f, id |-> i, sq |-> q, sz |-> z, t |-> t]) :
                     f \in {"AF_INET", "AF_INET6"}, i \in PacketIds,
                     q \in PacketSeqs, z \in 7..MaxSize, t \in PacketTimes}
    /\ fn_res = None

ApplyPacket ==
    /\ fn_arg # None
    /\ fn_res = None
    /\ fn_res' = Some(create_packet(fn_arg[1].fam, fn_arg[1].id, fn_arg[1].sq,
                                    fn_arg[1].sz, fn_arg[1].t))
    /\ UNCHANGED <<pingvars, fn_arg>>

SpecPacket == InitPacket /\ [][ApplyPacket]_vars

\* C18: for every request create_packet builds (size >= 8, odd total
\* lengths included), checksum() over the whole packet is 0 and the id and
\* sequence decoded from its header are the ones encoded; a request is
\* built whenever size >= 8 and the sequence fits the header format.
C18_ChecksumRoundTrip ==
    fn_res # None =>
        LET a == fn_arg[1]
            r == fn_res[1]
            h == UnpackHeader(a.fam, Slice(r.bytes, 0, ICMP_HEADER_LEN))
        IN  /\ r.exc = "none" =>
                  /\ Len(r.bytes) = ICMP_HEADER_LEN + a.sz
                  /\ checksum(r.bytes) = 0
                  /\ h.ok /\ h.id = a.id /\ h.sq = a.sq
                  /\ h.type = EchoRequestType(a.fam)
            /\ r.exc = "none" <=>
                  /\ a.sz >= 8
                  /\ a.fam = "AF_INET6" => a.sq <= 32767

C18_Witness ==
    /\ fn_res # None /\ fn_res[1].exc = "none"
    /\ Len(fn_res[1].bytes) % 2 = 1
    /\ fn_arg[1].t > 65535

====
